---- MODULE Spec2Model ----
(***************************************************************************)
(* ExternMetadata of cuda.go: the per-device capability arrays, the memory *)
(* arena, the work-signal relays (collectWork / collectBLASWork), DoWork,  *)
(* init / initFail and the launch geometry of ElemGridSize.                *)
(*                                                                         *)
(* Device ids are 0-based as in the Go code; a Go slice is a sequence, so  *)
(* slice[d] is read as At(slice, d) == slice[d + 1].                       *)
(***************************************************************************)
EXTENDS Integers, Sequences, FiniteSets, TLC

\* ------------------------------------------------------------------ bounds
\* number of devices cu.NumDevices() may report
MaxDevices == 2
\* work-item counts n passed to ElemGridSize: 0..MaxN
MaxN == 12
\* MaxThreadsPerBlock values of the profiles drawn for ElemGridSize: 1..MaxThreads
MaxThreads == 2
\* MaxGridDimX/Y/Z values of the profiles drawn for ElemGridSize: 1..MaxGrid
MaxGrid == 3
\* signals each device context raises on its work-available source
MaxSignals == 1
\* init() calls that get as far as allocating the per-device arrays
MaxInits == 2

\* ------------------------------------------------------------------- state
VARIABLES
    \* the machine: the number of devices cu.NumDevices() reports, and what
    \* dev.Attributes(WarpSize, MaxThreadsPerBlock, MaxGridDimX, MaxGridDimY,
    \* MaxGridDimZ, MaxBlockDimX, MaxBlockDimY, MaxBlockDimZ) reports for a device
    numDevices, attrs,
    \* ExternMetadata fields (cuda.go:32-59)
    warp, mtpb, mgdx, mgdy, mgdz, mbdx, mbdy, mbdz, freeMem, totalMem,
    arena, b, c, hasWork, workAvailable, mods, funcs, blasHasWork, initialzed,
    \* channels made so far and the ones closed (make / close of workAvailable)
    chans, closed,
    \* init() in progress: program counter and loop index i
    initPc, initI,
    \* the goroutines started by `go m.collectWork(i, ...)`, per channel generation
    relay,
    \* the goroutine started by `go m.collectBLASWork()`
    blasRelay,
    \* the source channels c[i].WorkAvailable() and b.WorkAvailable(): signals
    \* their relay has received so far, and whether the channel was closed
    srcSent, srcClosed, blasSrc,
    \* DoWork() in progress: program counter, loop index, and what this call did
    dwPc, dwI, dwStart, dwFlushed, dwCleared,
    \* the devices a relay has marked since this call of DoWork() flushed them
    \* and before it cleared their flag
    dwRemarked,
    \* signals the consumer received from the shared channel, per sending relay
    delivered,
    \* the last call of the single caller and what it returned
    ret,
    \* the runtime panic that ended the process, or "none"
    fault

caps == <<warp, mtpb, mgdx, mgdy, mgdz, mbdx, mbdy, mbdz, freeMem, totalMem>>
mdRest == <<numDevices, attrs, arena, b, c, hasWork, workAvailable, mods, funcs, blasHasWork, initialzed>>
chanVars == <<chans, closed>>
initVars == <<initPc, initI>>
relayVars == <<relay, blasRelay, srcSent, srcClosed, blasSrc, delivered>>
dwVars == <<dwPc, dwI, dwStart, dwFlushed, dwCleared, dwRemarked>>
vars == <<caps, mdRest, chanVars, initVars, relayVars, dwVars, ret, fault>>

\* ----------------------------------------------------------------- helpers
At(s, d) == s[d + 1]
InRange(s, d) == d >= 0 /\ d < Len(s)
SetAt(s, d, v) == [s EXCEPT ![d + 1] = v]
Fill(k, v) == [i \in 1..k |-> v]

\* Go's integer division truncates toward zero
GoDiv(x, y) == IF x >= 0 THEN x \div y ELSE -((-x) \div y)
\* Go's % has the sign of the dividend
GoMod(x, y) == x - y * GoDiv(x, y)

\* ------------------------------------------------- launch geometry (pure)
calcBlocksFloor(n, maxThreads) == GoDiv(n, maxThreads)

\* cuda.go:335-337
calcBlocks(n, maxThreads) == GoDiv(n + maxThreads - 1, maxThreads)

\* the switch of cuda.go:72-99 with its first two cases in the other order
GridSwitchSwapped(n, maxThreads, maxGridX, maxGridY, maxGridZ) ==
    LET blocks == calcBlocks(n, maxThreads) IN
    IF blocks >= maxGridX * maxGridY * maxGridZ THEN <<1, 1, 1, 1, 1, 1>>
    ELSE IF blocks = 1 THEN <<1, 1, 1, n, 1, 1>>
    ELSE IF blocks >= maxGridX * maxGridY THEN
        <<maxGridX, maxGridY,
          calcBlocks(GoMod(blocks, maxGridX * maxGridY), maxGridZ),
          maxThreads, 1, 1>>
    ELSE IF blocks >= maxGridX THEN
        <<maxGridX, calcBlocks(GoMod(blocks, maxGridX), maxGridY), 1,
          maxThreads, 1, 1>>
    ELSE <<blocks, 1, 1, maxThreads, 1, 1>>

\* cuda.go:72-99: <<gridDimX, gridDimY, gridDimZ, blockDimX, blockDimY, blockDimZ>>.
\* Go's switch takes the first case that is true; TLA+'s CASE does not order its
\* arms, so the order is spelled out with IF.
GridSwitch(n, maxThreads, maxGridX, maxGridY, maxGridZ) ==
    LET blocks == calcBlocks(n, maxThreads) IN
    IF blocks = 1 THEN <<1, 1, 1, n, 1, 1>>
    ELSE IF blocks >= maxGridX * maxGridY * maxGridZ THEN <<1, 1, 1, 1, 1, 1>>
    ELSE IF blocks >= maxGridX * maxGridY THEN
        <<maxGridX, maxGridY,
          calcBlocks(GoMod(blocks, maxGridX * maxGridY), maxGridZ),
          maxThreads, 1, 1>>
    ELSE IF blocks >= maxGridX THEN
        <<maxGridX, calcBlocks(GoMod(blocks, maxGridX), maxGridY), 1,
          maxThreads, 1, 1>>
    ELSE <<blocks, 1, 1, maxThreads, 1, 1>>

\* ---------------------------------------------------------------- registry
\* the attributes of a common device
DevAttrs == <<32, 1024, 2147483647, 65535, 65535, 1024, 1024, 64>>
\* what cu.MemInfo() reports: <<free, total>>
DevMemInfo == <<6, 8>>

\* size classes and memory blocks the caller passes to Get / Put
Sizes == {16, 32}
Mems == {"memA", "memB"}
\* device ids the caller passes: the first and the last device of the machine,
\* and one past the last
DevArgs == {0, numDevices - 1, numDevices} \ {-1}

NoCall == [op |-> "none"]
NoRelay == [pc |-> "none", ch |-> 0]
NilMap == [made |-> FALSE, pools |-> <<>>]
EmptyMap == [made |-> TRUE, pools |-> <<>>]

\* the zero value of ExternMetadata, on a machine with nd devices
Zero(nd, bl, at) ==
    /\ numDevices = nd
    /\ attrs = at
    /\ warp = <<>> /\ mtpb = <<>> /\ mgdx = <<>> /\ mgdy = <<>> /\ mgdz = <<>>
    /\ mbdx = <<>> /\ mbdy = <<>> /\ mbdz = <<>>
    /\ freeMem = <<>> /\ totalMem = <<>>
    /\ arena = <<>>
    /\ b = bl
    /\ c = <<>>
    /\ hasWork = <<>>
    /\ workAvailable = 0
    /\ mods = "nil" /\ funcs = "nil"
    /\ blasHasWork = FALSE
    /\ initialzed = FALSE
    /\ chans = 0 /\ closed = {}
    /\ initPc = "idle" /\ initI = 0
    /\ relay = <<>>
    /\ blasRelay = NoRelay
    /\ srcSent = <<>> /\ srcClosed = <<>>
    /\ blasSrc = 0
    /\ dwPc = "idle" /\ dwI = 0
    /\ dwStart = <<>> /\ dwFlushed = {} /\ dwCleared = {} /\ dwRemarked = {}
    /\ delivered = <<>>
    /\ ret = NoCall
    /\ fault = "none"

Init == \E nd \in 0..MaxDevices, bl \in {"nil", "blas"} : Zero(nd, bl, DevAttrs)

\* a registry with no BLAS backend configured
InitNoBLAS == \E nd \in 0..MaxDevices : Zero(nd, "nil", DevAttrs)

\* the single caller (the VM that owns the registry) is between calls
CallerIdle == fault = "none" /\ initPc = "idle" /\ dwPc = "idle"

Returns(r) == ret' = r

\* cuda.go:297-307
initFail ==
    /\ c' = <<>>
    /\ mods' = "nil"
    /\ funcs' = "nil"
    /\ closed' = IF workAvailable # 0 THEN closed \cup {workAvailable} ELSE closed
    /\ workAvailable' = 0

\* init() without the test of m.initialzed of cuda.go:201-203
InitCallNoGuard(numErr) ==
    /\ CallerIdle
    /\ IF numErr \/ numDevices = 0
       THEN /\ Returns([op |-> "init", ready |-> initialzed])
            /\ UNCHANGED <<caps, mdRest, chanVars, initVars, relayVars, dwVars, fault>>
       ELSE /\ chans < MaxInits
            /\ chans' = chans + 1
            /\ workAvailable' = chans + 1
            /\ c' = Fill(numDevices, "nil")
            /\ hasWork' = Fill(numDevices, FALSE)
            /\ warp' = Fill(numDevices, 0) /\ mtpb' = Fill(numDevices, 0)
            /\ mgdx' = Fill(numDevices, 0) /\ mgdy' = Fill(numDevices, 0)
            /\ mgdz' = Fill(numDevices, 0) /\ mbdx' = Fill(numDevices, 0)
            /\ mbdy' = Fill(numDevices, 0) /\ mbdz' = Fill(numDevices, 0)
            /\ freeMem' = Fill(numDevices, 0) /\ totalMem' = Fill(numDevices, 0)
            /\ arena' = Fill(numDevices, NilMap)
            /\ relay' = Append(relay, Fill(numDevices, NoRelay))
            /\ srcSent' = Append(srcSent, Fill(numDevices, 0))
            /\ srcClosed' = Append(srcClosed, Fill(numDevices, FALSE))
            /\ delivered' = Append(delivered, Fill(numDevices, 0))
            /\ initPc' = "probe"
            /\ initI' = 0
            /\ Returns([op |-> "init", ready |-> FALSE])
            /\ UNCHANGED <<numDevices, attrs, b, mods, funcs, blasHasWork, initialzed, closed,
                           blasRelay, blasSrc, dwVars, fault>>

\* cuda.go:200-230: init() up to the allocation of the per-device arrays.
\* numErr: cu.NumDevices() failed.
InitCall(numErr) ==
    /\ CallerIdle
    /\ IF initialzed \/ numErr \/ numDevices = 0
       THEN /\ Returns([op |-> "init", ready |-> initialzed])
            /\ UNCHANGED <<caps, mdRest, chanVars, initVars, relayVars, dwVars, fault>>
       ELSE /\ chans < MaxInits
            /\ chans' = chans + 1
            /\ workAvailable' = chans + 1
            /\ c' = Fill(numDevices, "nil")
            /\ hasWork' = Fill(numDevices, FALSE)
            /\ warp' = Fill(numDevices, 0) /\ mtpb' = Fill(numDevices, 0)
            /\ mgdx' = Fill(numDevices, 0) /\ mgdy' = Fill(numDevices, 0)
            /\ mgdz' = Fill(numDevices, 0) /\ mbdx' = Fill(numDevices, 0)
            /\ mbdy' = Fill(numDevices, 0) /\ mbdz' = Fill(numDevices, 0)
            /\ freeMem' = Fill(numDevices, 0) /\ totalMem' = Fill(numDevices, 0)
            /\ arena' = Fill(numDevices, NilMap)
            /\ relay' = Append(relay, Fill(numDevices, NoRelay))
            /\ srcSent' = Append(srcSent, Fill(numDevices, 0))
            /\ srcClosed' = Append(srcClosed, Fill(numDevices, FALSE))
            /\ delivered' = Append(delivered, Fill(numDevices, 0))
            /\ initPc' = "probe"
            /\ initI' = 0
            /\ Returns([op |-> "init", ready |-> FALSE])
            /\ UNCHANGED <<numDevices, attrs, b, mods, funcs, blasHasWork, initialzed, closed,
                           blasRelay, blasSrc, dwVars, fault>>

ProbeOutcomes == {"ok", "getDevice", "outOfMemory", "makeContext", "attributes", "memInfo"}

\* cuda.go:232-285: one iteration of the loop over the devices, for device initI.
\* outcome names the driver call that failed, or "ok".
InitProbe(outcome) ==
    LET i == initI
        attrsRead == outcome \in {"ok", "memInfo"}
        g == Len(relay)
    IN
    /\ fault = "none"
    /\ initPc = "probe"
    /\ i < Len(c)
    /\ warp' = IF attrsRead THEN SetAt(warp, i, attrs[1]) ELSE warp
    /\ mtpb' = IF attrsRead THEN SetAt(mtpb, i, attrs[2]) ELSE mtpb
    /\ mgdx' = IF attrsRead THEN SetAt(mgdx, i, attrs[3]) ELSE mgdx
    /\ mgdy' = IF attrsRead THEN SetAt(mgdy, i, attrs[4]) ELSE mgdy
    /\ mgdz' = IF attrsRead THEN SetAt(mgdz, i, attrs[5]) ELSE mgdz
    /\ mbdx' = IF attrsRead THEN SetAt(mbdx, i, attrs[6]) ELSE mbdx
    /\ mbdy' = IF attrsRead THEN SetAt(mbdy, i, attrs[7]) ELSE mbdy
    /\ mbdz' = IF attrsRead THEN SetAt(mbdz, i, attrs[8]) ELSE mbdz
    /\ IF outcome = "ok"
       THEN /\ freeMem' = SetAt(freeMem, i, DevMemInfo[1])
            /\ totalMem' = SetAt(totalMem, i, DevMemInfo[2])
            /\ arena' = SetAt(arena, i, EmptyMap)
            /\ c' = SetAt(c, i, "ctx")
            /\ relay' = [relay EXCEPT ![g][i + 1] = [pc |-> "recv", ch |-> 0]]
            /\ initI' = i + 1
            /\ UNCHANGED <<initPc, workAvailable, mods, funcs, closed, ret>>
       ELSE /\ initFail
            /\ initPc' = "idle"
            /\ Returns([op |-> "init", ready |-> FALSE])
            /\ UNCHANGED <<freeMem, totalMem, arena, relay, initI>>
    /\ UNCHANGED <<numDevices, attrs, b, hasWork, blasHasWork, initialzed, chans, blasRelay,
                   srcSent, srcClosed, blasSrc, delivered, dwVars, fault>>

\* the end of init() reached whatever the number of devices probed so far
InitFinishEarly ==
    /\ fault = "none"
    /\ initPc = "probe"
    /\ mods' = "made"
    /\ funcs' = "made"
    /\ blasRelay' = IF b # "nil" THEN [pc |-> "recv", ch |-> 0]
                                 ELSE [pc |-> "done", ch |-> 0]
    /\ initialzed' = TRUE
    /\ initPc' = "idle"
    /\ Returns([op |-> "init", ready |-> TRUE])
    /\ UNCHANGED <<caps, numDevices, attrs, arena, b, c, hasWork, workAvailable, blasHasWork,
                   chanVars, initI, relay, srcSent, srcClosed, blasSrc,
                   delivered, dwVars, fault>>

\* cuda.go:286-294, after the loop: SetCurrent, the name tables, the BLAS relay.
\* collectBLASWork (cuda.go:318-325) returns at once when m.b is nil.
InitFinish ==
    /\ fault = "none"
    /\ initPc = "probe"
    /\ initI >= Len(c)
    /\ mods' = "made"
    /\ funcs' = "made"
    /\ blasRelay' = IF b # "nil" THEN [pc |-> "recv", ch |-> 0]
                                 ELSE [pc |-> "done", ch |-> 0]
    /\ initialzed' = TRUE
    /\ initPc' = "idle"
    /\ Returns([op |-> "init", ready |-> TRUE])
    /\ UNCHANGED <<caps, numDevices, attrs, arena, b, c, hasWork, workAvailable, blasHasWork,
                   chanVars, initI, relay, srcSent, srcClosed, blasSrc,
                   delivered, dwVars, fault>>

\* ------------------------------------------------------------------- arena
\* memoryQueue: one pool of blocks of one size class, first in first out
newMemoryQueue(size) == <<>>
queueAdd(q, mem) == Append(q, mem)
queueGet(q) ==
    IF q = <<>> THEN [mem |-> "nil", found |-> FALSE, q |-> q]
    ELSE [mem |-> Head(q), found |-> TRUE, q |-> Tail(q)]

HasPool(d, size) ==
    /\ InRange(arena, d)
    /\ At(arena, d).made
    /\ size \in DOMAIN At(arena, d).pools
Pool(d, size) == At(arena, d).pools[size]

\* mem is held by a pool of the arena. A block is owned by the arena from its
\* Put to the Get that returns it, and by the caller otherwise: the caller has
\* only the blocks it owns to Put.
InArena(mem) ==
    \E d \in 0..(Len(arena) - 1), size \in Sizes :
        /\ HasPool(d, size)
        /\ \E k \in 1..Len(Pool(d, size)) : Pool(d, size)[k] = mem

\* the range guard with > for >=
OutOfRangeOffByOne(s, d) == d > Len(s)

\* cuda.go:169 and cuda.go:181: d >= len(m.arena)
OutOfRange(s, d) == d >= Len(s)

\* a Get that hands out the head of the pool and leaves it in the pool
GetResultPeek(d, size) ==
    IF OutOfRange(arena, d) THEN [mem |-> "nil", found |-> FALSE, q |-> <<>>]
    ELSE IF HasPool(d, size)
         THEN [queueGet(Pool(d, size)) EXCEPT !.q = Pool(d, size)]
    ELSE [mem |-> "nil", found |-> FALSE, q |-> <<>>]

\* cuda.go:167-176: what Get returns, and the pool it leaves. Reading a nil map
\* is no fault in Go: it finds nothing.
GetResult(d, size) ==
    IF OutOfRange(arena, d) THEN [mem |-> "nil", found |-> FALSE, q |-> <<>>]
    ELSE IF HasPool(d, size) THEN queueGet(Pool(d, size))
    ELSE [mem |-> "nil", found |-> FALSE, q |-> <<>>]

\* the Put of the same device and size that a call comes right after, if any
Follows(d, size) ==
    IF ret.op = "Put" /\ ret.dev = d /\ ret.size = size THEN ret ELSE NoCall

\* cuda.go:167-176
Get(d, size) ==
    /\ CallerIdle
    /\ IF ~OutOfRange(arena, d) /\ ~InRange(arena, d)
       THEN /\ fault' = "index out of range"
            /\ Returns([op |-> "Get", dev |-> d, size |-> size, mem |-> "nil",
                        found |-> FALSE, follows |-> Follows(d, size)])
            /\ UNCHANGED arena
       ELSE /\ arena' = IF ~OutOfRange(arena, d) /\ HasPool(d, size)
                        THEN SetAt(arena, d,
                                   [At(arena, d) EXCEPT
                                       !.pools[size] = GetResult(d, size).q])
                        ELSE arena
            /\ Returns([op |-> "Get", dev |-> d, size |-> size,
                        mem |-> GetResult(d, size).mem,
                        found |-> GetResult(d, size).found,
                        follows |-> Follows(d, size)])
            /\ UNCHANGED fault
    /\ UNCHANGED <<caps, numDevices, attrs, b, c, hasWork, workAvailable, mods, funcs,
                   blasHasWork, initialzed, chanVars, initVars, relayVars, dwVars>>

\* cuda.go:185-190 without the store of the new pool into the map
PutPoolsNoStore(d, mem, size) ==
    LET old == At(arena, d).pools
    IN [s \in DOMAIN old |-> IF s = size THEN queueAdd(old[s], mem) ELSE old[s]]

\* the map of device d after m.arena[d][size] has been given a pool (if it had
\* none) and the pool has been given mem: cuda.go:185-190
PutPools(d, mem, size) ==
    LET old == At(arena, d).pools
        pool == IF size \in DOMAIN old THEN old[size] ELSE newMemoryQueue(size)
    IN [s \in DOMAIN old \cup {size} |->
            IF s = size THEN queueAdd(pool, mem) ELSE old[s]]

\* cuda.go:179-191. Writing to a nil map is a runtime panic in Go.
Put(d, mem, size) ==
    /\ CallerIdle
    /\ ~InArena(mem)
    /\ Returns([op |-> "Put", dev |-> d, size |-> size, mem |-> mem,
                fresh |-> InRange(arena, d) /\ ~HasPool(d, size)])
    /\ IF OutOfRange(arena, d)
       THEN UNCHANGED <<arena, fault>>
       ELSE IF ~InRange(arena, d)
       THEN fault' = "index out of range" /\ UNCHANGED arena
       ELSE IF ~At(arena, d).made /\ size \notin DOMAIN At(arena, d).pools
       THEN fault' = "assignment to entry in nil map" /\ UNCHANGED arena
       ELSE /\ arena' = SetAt(arena, d, [At(arena, d) EXCEPT
                                            !.pools = PutPools(d, mem, size)])
            /\ UNCHANGED fault
    /\ UNCHANGED <<caps, numDevices, attrs, b, c, hasWork, workAvailable, mods, funcs,
                   blasHasWork, initialzed, chanVars, initVars, relayVars, dwVars>>

\* a Cleanup that tears the registry down
CleanupTeardown ==
    /\ CallerIdle
    /\ initialzed' = FALSE
    /\ c' = <<>>
    /\ Returns([op |-> "Cleanup"])
    /\ UNCHANGED <<caps, numDevices, attrs, arena, b, hasWork, workAvailable, mods, funcs,
                   blasHasWork, chanVars, initVars, relayVars, dwVars, fault>>

\* cuda.go:194-198: every context releases its ancillary allocations; nothing of
\* the registry changes. A nil *cu.BatchedContext in m.c would be dereferenced.
Cleanup ==
    /\ CallerIdle
    /\ fault' = IF \E i \in 1..Len(c) : c[i] = "nil"
                THEN "nil pointer dereference" ELSE fault
    /\ Returns([op |-> "Cleanup"])
    /\ UNCHANGED <<caps, mdRest, chanVars, initVars, relayVars, dwVars>>

\* cuda.go:62-100. The guard of cuda.go:63-65 has an empty body, so the four
\* capability slices are indexed with dev whatever it is; calcBlocks divides by
\* maxThreads.
ElemGridSize(n, dev) ==
    /\ CallerIdle
    /\ IF ~InRange(mtpb, dev)
       THEN /\ fault' = "index out of range"
            /\ Returns([op |-> "ElemGridSize", n |-> n, dev |-> dev, grid |-> <<>>])
       ELSE IF At(mtpb, dev) = 0
       THEN /\ fault' = "integer divide by zero"
            /\ Returns([op |-> "ElemGridSize", n |-> n, dev |-> dev, grid |-> <<>>])
       ELSE /\ Returns([op |-> "ElemGridSize", n |-> n, dev |-> dev,
                        grid |-> GridSwitch(n, At(mtpb, dev), At(mgdx, dev),
                                            At(mgdy, dev), At(mgdz, dev))])
            /\ UNCHANGED fault
    /\ UNCHANGED <<caps, mdRest, chanVars, initVars, relayVars, dwVars>>

\* capability profiles of the devices ElemGridSize is computed for
Profiles ==
    {<<32, t, x, y, z, 1024, 1024, 64>> :
        t \in 1..MaxThreads, x \in 1..MaxGrid, y \in 1..MaxGrid, z \in 1..MaxGrid}

InitGrid == \E at \in Profiles : Zero(1, "nil", at)

NextGrid ==
    \/ \E numErr \in BOOLEAN : InitCall(numErr)
    \/ \E outcome \in ProbeOutcomes : InitProbe(outcome)
    \/ InitFinish
    \/ \E n \in 0..MaxN, dev \in DevArgs : ElemGridSize(n, dev)

\* a one-device registry brought up by init() on a device of any profile, and
\* the launch geometry computed from it
SpecGrid == InitGrid /\ [][NextGrid]_vars

NextArena ==
    \/ \E numErr \in BOOLEAN : InitCall(numErr)
    \/ \E outcome \in ProbeOutcomes : InitProbe(outcome)
    \/ InitFinish
    \/ \E d \in DevArgs, size \in Sizes : Get(d, size)
    \/ \E d \in DevArgs, mem \in Mems, size \in Sizes : Put(d, mem, size)
    \/ Cleanup

\* the registry and its single caller, with the relay goroutines left where init()
\* started them: they never touch the arena, the profiles or the lifecycle state
SpecArena == InitNoBLAS /\ [][NextArena]_vars

\* --------------------------------------------------------- work-signal hub
Gens == 1..Len(relay)
DevsOf(g) == 0..(Len(relay[g]) - 1)
Relay(g, d) == relay[g][d + 1]

\* the source channel of a relay, c[d].WorkAvailable() of cuda.go:284, is
\* closed by the context that owns it
CloseSource(g, d) ==
    /\ fault = "none"
    /\ Relay(g, d).pc # "none"
    /\ ~srcClosed[g][d + 1]
    /\ srcClosed' = [srcClosed EXCEPT ![g][d + 1] = TRUE]
    /\ UNCHANGED <<caps, mdRest, chanVars, initVars, relay, blasRelay, srcSent,
                   blasSrc, delivered, dwVars, ret, fault>>

\* cuda.go:311: `for range workAvailable` receives one signal from its source;
\* srcSent counts the signals this relay has received
RelayRecv(g, d) ==
    /\ fault = "none"
    /\ Relay(g, d).pc = "recv"
    /\ ~srcClosed[g][d + 1]
    /\ srcSent[g][d + 1] < MaxSignals
    /\ srcSent' = [srcSent EXCEPT ![g][d + 1] = @ + 1]
    /\ relay' = [relay EXCEPT ![g][d + 1].pc = "mark"]
    /\ UNCHANGED <<caps, mdRest, chanVars, initVars, blasRelay, srcClosed,
                   blasSrc, delivered, dwVars, ret, fault>>

\* cuda.go:311: the range loop ends when the source is closed
RelayExit(g, d) ==
    /\ fault = "none"
    /\ Relay(g, d).pc = "recv"
    /\ srcClosed[g][d + 1]
    /\ relay' = [relay EXCEPT ![g][d + 1].pc = "done"]
    /\ UNCHANGED <<caps, mdRest, chanVars, initVars, blasRelay, srcSent,
                   srcClosed, blasSrc, delivered, dwVars, ret, fault>>

\* a relay that marks its device and goes back to its source without sending
RelayMarkNoSend(g, d) ==
    /\ fault = "none"
    /\ Relay(g, d).pc = "mark"
    /\ hasWork' = SetAt(hasWork, d, TRUE)
    /\ relay' = [relay EXCEPT ![g][d + 1] = [pc |-> "recv", ch |-> 0]]
    /\ dwRemarked' = IF dwPc = "clear" /\ dwI = d THEN dwRemarked \cup {d}
                                                  ELSE dwRemarked
    /\ UNCHANGED <<caps, numDevices, attrs, arena, b, c, workAvailable, mods, funcs,
                   blasHasWork, initialzed, chanVars, initVars, blasRelay, srcSent,
                   srcClosed, blasSrc, delivered, dwPc, dwI, dwStart, dwFlushed,
                   dwCleared, ret, fault>>

\* cuda.go:312-313: m.hasWork[devID] = true, then the send statement evaluates
\* m.workAvailable and blocks on that channel (a nil channel blocks for ever)
RelayMark(g, d) ==
    /\ fault = "none"
    /\ Relay(g, d).pc = "mark"
    /\ IF InRange(hasWork, d)
       THEN /\ hasWork' = SetAt(hasWork, d, TRUE)
            /\ relay' = [relay EXCEPT ![g][d + 1] =
                                        [pc |-> "send", ch |-> workAvailable]]
            /\ dwRemarked' = IF dwPc = "clear" /\ dwI = d
                             THEN dwRemarked \cup {d} ELSE dwRemarked
            /\ UNCHANGED fault
       ELSE /\ fault' = "index out of range"
            /\ UNCHANGED <<hasWork, relay, dwRemarked>>
    /\ UNCHANGED <<caps, numDevices, attrs, arena, b, c, workAvailable, mods, funcs,
                   blasHasWork, initialzed, chanVars, initVars, blasRelay, srcSent,
                   srcClosed, blasSrc, delivered, dwPc, dwI, dwStart, dwFlushed,
                   dwCleared, ret>>

\* cuda.go:313: a goroutine sending on a channel that is closed panics
RelaySendPanic(g, d) ==
    /\ fault = "none"
    /\ Relay(g, d).pc = "send"
    /\ Relay(g, d).ch \in closed
    /\ fault' = "send on closed channel"
    /\ UNCHANGED <<caps, mdRest, chanVars, initVars, relayVars, dwVars, ret>>

\* cuda.go:127 and cuda.go:313: the consumer receives from m.WorkAvailable(),
\* which completes the send of one relay blocked on that channel
Receive(g, d) ==
    /\ CallerIdle
    /\ workAvailable # 0
    /\ Relay(g, d).pc = "send"
    /\ Relay(g, d).ch = workAvailable
    /\ relay' = [relay EXCEPT ![g][d + 1] = [pc |-> "recv", ch |-> 0]]
    /\ delivered' = [delivered EXCEPT ![g][d + 1] = @ + 1]
    /\ UNCHANGED <<caps, mdRest, chanVars, initVars, blasRelay, srcSent,
                   srcClosed, blasSrc, dwVars, ret, fault>>

\* cuda.go:320: `for range m.b.WorkAvailable()` receives one signal from the
\* BLAS backend; blasSrc counts the signals received
BlasRecv ==
    /\ fault = "none"
    /\ blasRelay.pc = "recv"
    /\ blasSrc < MaxSignals
    /\ blasSrc' = blasSrc + 1
    /\ blasRelay' = [blasRelay EXCEPT !.pc = "mark"]
    /\ UNCHANGED <<caps, mdRest, chanVars, initVars, relay, srcSent,
                   srcClosed, delivered, dwVars, ret, fault>>

\* cuda.go:321-322: m.blasHasWork = true, then the send on m.workAvailable
BlasMark ==
    /\ fault = "none"
    /\ blasRelay.pc = "mark"
    /\ blasHasWork' = TRUE
    /\ blasRelay' = [pc |-> "send", ch |-> workAvailable]
    /\ UNCHANGED <<caps, numDevices, attrs, arena, b, c, hasWork, workAvailable, mods,
                   funcs, initialzed, chanVars, initVars, relay, srcSent,
                   srcClosed, blasSrc, delivered, dwVars, ret, fault>>

\* the consumer receives the signal the BLAS relay is sending
ReceiveBlas ==
    /\ CallerIdle
    /\ workAvailable # 0
    /\ blasRelay.pc = "send"
    /\ blasRelay.ch = workAvailable
    /\ blasRelay' = [pc |-> "recv", ch |-> 0]
    /\ UNCHANGED <<caps, mdRest, chanVars, initVars, relay, srcSent,
                   srcClosed, blasSrc, delivered, dwVars, ret, fault>>

\* what DoWork hands back: err is the error of device `at` (-1: none), blas
\* tells whether m.b.DoWork() ran
DoWorkRet(err, at, blas) ==
    [op |-> "DoWork", err |-> err, at |-> at, blas |-> blas]

\* cuda.go:130-131: DoWork is called and starts its loop over m.hasWork. dwStart,
\* dwFlushed and dwCleared record, for the call in progress, the flags at the
\* call, the devices flushed and the flags cleared.
DoWorkCall ==
    /\ CallerIdle
    /\ dwPc' = "loop"
    /\ dwI' = 0
    /\ dwStart' = hasWork
    /\ dwFlushed' = {}
    /\ dwCleared' = {}
    /\ dwRemarked' = {}
    /\ Returns(NoCall)
    /\ UNCHANGED <<caps, mdRest, chanVars, initVars, relayVars, fault>>

\* cuda.go:131-136: one iteration for device dwI up to the error check. flushErr:
\* m.c[i].Errors() reports an error after the flush, and DoWork returns it.
DoWorkFlush(flushErr) ==
    LET i == dwI IN
    /\ fault = "none"
    /\ dwPc = "loop"
    /\ i < Len(hasWork)
    /\ IF ~At(hasWork, i)
       THEN /\ dwI' = i + 1
            /\ UNCHANGED <<dwPc, dwStart, dwFlushed, dwCleared, ret, fault>>
       ELSE IF ~InRange(c, i)
       THEN /\ fault' = "index out of range"
            /\ UNCHANGED <<dwPc, dwI, dwStart, dwFlushed, dwCleared, ret>>
       ELSE IF flushErr
       THEN /\ dwPc' = "idle"
            /\ dwI' = 0
            /\ dwStart' = <<>>
            /\ dwFlushed' = {}
            /\ dwCleared' = {}
            /\ Returns(DoWorkRet(TRUE, i, FALSE))
            /\ UNCHANGED fault
       ELSE /\ dwFlushed' = dwFlushed \cup {i}
            /\ dwPc' = "clear"
            /\ UNCHANGED <<dwI, dwStart, dwCleared, ret, fault>>
    /\ UNCHANGED <<caps, mdRest, chanVars, initVars, relayVars, dwRemarked>>

\* a loop that goes on to the next device and leaves the flag as it is
DoWorkClearKeep ==
    /\ fault = "none"
    /\ dwPc = "clear"
    /\ dwI' = dwI + 1
    /\ dwPc' = "loop"
    /\ dwRemarked' = {}
    /\ UNCHANGED <<caps, mdRest, chanVars, initVars, relayVars, dwStart,
                   dwFlushed, dwCleared, ret, fault>>

\* cuda.go:137: m.hasWork[i] = false, and on to the next device
DoWorkClear ==
    /\ fault = "none"
    /\ dwPc = "clear"
    /\ hasWork' = SetAt(hasWork, dwI, FALSE)
    /\ dwCleared' = dwCleared \cup {dwI}
    /\ dwRemarked' = {}
    /\ dwI' = dwI + 1
    /\ dwPc' = "loop"
    /\ UNCHANGED <<caps, numDevices, attrs, arena, b, c, workAvailable, mods, funcs,
                   blasHasWork, initialzed, chanVars, initVars, relayVars, dwStart,
                   dwFlushed, ret, fault>>

\* cuda.go:141-145: after the loop the BLAS backend is flushed if it has work,
\* and DoWork returns nil
DoWorkBlas ==
    /\ fault = "none"
    /\ dwPc = "loop"
    /\ dwI >= Len(hasWork)
    /\ blasHasWork' = FALSE
    /\ dwPc' = "idle"
    /\ dwI' = 0
    /\ dwStart' = <<>>
    /\ dwFlushed' = {}
    /\ dwCleared' = {}
    /\ Returns(DoWorkRet(FALSE, -1, blasHasWork))
    /\ UNCHANGED <<caps, numDevices, attrs, arena, b, c, hasWork, workAvailable, mods,
                   funcs, initialzed, chanVars, initVars, relayVars, dwRemarked, fault>>

NextHub ==
    \/ \E numErr \in BOOLEAN : InitCall(numErr)
    \/ \E outcome \in ProbeOutcomes : InitProbe(outcome)
    \/ InitFinish
    \/ \E g \in Gens : \E d \in DevsOf(g) : CloseSource(g, d)
    \/ \E g \in Gens : \E d \in DevsOf(g) : RelayRecv(g, d)
    \/ \E g \in Gens : \E d \in DevsOf(g) : RelayExit(g, d)
    \/ \E g \in Gens : \E d \in DevsOf(g) : RelayMark(g, d)
    \/ \E g \in Gens : \E d \in DevsOf(g) : RelaySendPanic(g, d)
    \/ \E g \in Gens : \E d \in DevsOf(g) : Receive(g, d)
    \/ BlasRecv
    \/ BlasMark
    \/ ReceiveBlas
    \/ DoWorkCall
    \/ \E flushErr \in BOOLEAN : DoWorkFlush(flushErr)
    \/ DoWorkClear
    \/ DoWorkBlas

\* the registry, its relay goroutines, the signal sources and the consumer that
\* receives from the shared channel and calls DoWork; nothing here reads or
\* writes the pools of the arena
SpecHub == Init /\ [][NextHub]_vars

NextLife ==
    \/ NextArena
    \/ DoWorkCall
    \/ \E flushErr \in BOOLEAN : DoWorkFlush(flushErr)
    \/ DoWorkBlas

\* the single caller making every call of the registry (init, Get, Put, Cleanup
\* and DoWork), with the relay goroutines left where init() started them: no
\* device has pending work when DoWork runs
SpecLife == InitNoBLAS /\ [][NextLife]_vars

\* the relay slots there can ever be: one per init() that allocates and device
Slots == (1..MaxInits) \X (0..(MaxDevices - 1))
Live(s) == s[1] \in Gens /\ s[2] \in DevsOf(s[1])

\* SpecHub under fair scheduling: every goroutine that can take a step
\* eventually takes it (the relays, and the caller inside init() and DoWork()),
\* and the consumer keeps receiving: a relay that is again and again ready to
\* hand over its signal eventually hands it over
SpecHubFair ==
    /\ SpecHub
    /\ \A s \in Slots :
          /\ WF_vars(Live(s) /\ RelayExit(s[1], s[2]))
          /\ WF_vars(Live(s) /\ RelayMark(s[1], s[2]))
          /\ WF_vars(Live(s) /\ RelaySendPanic(s[1], s[2]))
          /\ SF_vars(Live(s) /\ Receive(s[1], s[2]))
    /\ WF_vars(\E outcome \in ProbeOutcomes : InitProbe(outcome))
    /\ WF_vars(InitFinish)
    /\ WF_vars(\E flushErr \in BOOLEAN : DoWorkFlush(flushErr))
    /\ WF_vars(DoWorkClear)
    /\ WF_vars(DoWorkBlas)

\* every operation of the registry together
Next ==
    \/ NextArena
    \/ NextHub
    \/ \E n \in 0..MaxN, dev \in DevArgs : ElemGridSize(n, dev)

Spec == Init /\ [][Next]_vars

\* ============================================================== the claims
GridReturned == ret.op = "ElemGridSize" /\ fault = "none"
Product(g) == g[1] * g[2] * g[3] * g[4] * g[5] * g[6]

\* C1: for n >= 1 the geometry ElemGridSize returns covers all n work items:
\* gridX * gridY * gridZ * blockX * blockY * blockZ >= n.
C1_Covers == (GridReturned /\ ret.n >= 1) => Product(ret.grid) >= ret.n

\* C2: for n >= 1 every dimension ElemGridSize returns is within the device's
\* maximum: gridX <= maxGridX, gridY <= maxGridY, gridZ <= maxGridZ and
\* blockX * blockY * blockZ <= maxThreadsPerBlock.
C2_WithinLimits ==
    (GridReturned /\ ret.n >= 1) =>
        /\ ret.grid[1] <= At(mgdx, ret.dev)
        /\ ret.grid[2] <= At(mgdy, ret.dev)
        /\ ret.grid[3] <= At(mgdz, ret.dev)
        /\ ret.grid[4] * ret.grid[5] * ret.grid[6] <= At(mtpb, ret.dev)

\* C3 as stated: for every n <= maxThreadsPerBlock, ElemGridSize returns
\* (1, 1, 1, n, 1, 1).
C3_AsStated ==
    (GridReturned /\ ret.n <= At(mtpb, ret.dev)) =>
        ret.grid = <<1, 1, 1, ret.n, 1, 1>>

\* C3: for every n with 1 <= n <= maxThreadsPerBlock, ElemGridSize returns
\* (1, 1, 1, n, 1, 1).
C3_SingleBlock ==
    (GridReturned /\ 1 <= ret.n /\ ret.n <= At(mtpb, ret.dev)) =>
        ret.grid = <<1, 1, 1, ret.n, 1, 1>>

C3_Witness ==
    /\ GridReturned /\ initialzed
    /\ 2 <= ret.n /\ ret.n <= At(mtpb, ret.dev)
    /\ ret.grid = <<1, 1, 1, ret.n, 1, 1>>

\* the ceiling of n / d as the least k with k * d >= n, for n >= 0 and d >= 1
Ceil(n, d) == CHOOSE k \in 0..n : k * d >= n /\ (k - 1) * d < n

\* the six ordered steps of the launch-geometry algorithm as the specification
\* writes them, each step taken only when every earlier one was not
RefGrid(n, maxT, maxX, maxY, maxZ) ==
    LET blocks == Ceil(n, maxT)
        step2 == blocks = 1
        step3 == ~step2 /\ blocks >= maxX * maxY * maxZ
        step4 == ~step2 /\ ~step3 /\ blocks >= maxX * maxY
        step5 == ~step2 /\ ~step3 /\ ~step4 /\ blocks >= maxX
    IN <<IF step4 \/ step5 THEN maxX
         ELSE IF step2 \/ step3 THEN 1 ELSE blocks,
         IF step4 THEN maxY
         ELSE IF step5 THEN Ceil(blocks % maxX, maxY) ELSE 1,
         IF step4 THEN Ceil(blocks % (maxX * maxY), maxZ) ELSE 1,
         IF step2 THEN n ELSE IF step3 THEN 1 ELSE maxT,
         1, 1>>

C5_RoundTrip ==
    (ret.op = "Get" /\ ret.follows.op = "Put" /\ ret.follows.fresh
        /\ fault = "none") =>
        /\ ret.found
        /\ ret.mem = ret.follows.mem
        /\ HasPool(ret.dev, ret.size)
        /\ Pool(ret.dev, ret.size) = <<>>

C5_Witness ==
    /\ initialzed
    /\ ret.op = "Get" /\ ret.follows.op = "Put" /\ ret.follows.fresh
    /\ ret.found /\ ret.mem = ret.follows.mem

C7_NoIndexFault ==
    (ret.op = "ElemGridSize" /\ ret.dev >= Len(mtpb)) => fault = "none"

\* C8: when init() returns after a device of m >= 2 failed a probing step, the
\* registry is not Ready and holds nothing of the devices that had succeeded: no
\* contexts, no populated capability profile, no arena pool map, and the shared
\* channel closed.
C8_AllOrNothing ==
    (ret = [op |-> "init", ready |-> FALSE] /\ initPc = "idle"
        /\ numDevices >= 2 /\ Len(arena) = numDevices) =>
        /\ ~initialzed
        /\ c = <<>>
        /\ \A i \in 1..Len(arena) :
              /\ warp[i] = 0 /\ mtpb[i] = 0
              /\ mgdx[i] = 0 /\ mgdy[i] = 0 /\ mgdz[i] = 0
              /\ mbdx[i] = 0 /\ mbdy[i] = 0 /\ mbdz[i] = 0
              /\ ~arena[i].made
        /\ workAvailable = 0
        /\ chans \in closed

\* signals a relay has received and not yet handed to the consumer
InFlight(g, d) == IF Relay(g, d).pc \in {"mark", "send"} THEN 1 ELSE 0

RECURSIVE SumSeq(_)
SumSeq(s) == IF s = <<>> THEN 0 ELSE Head(s) + SumSeq(Tail(s))

\* the relays started by the init() that made the registry ready
ReadyGen == Len(relay)

\* C9: signal fan-in is count-preserving. Every relay has handed to the
\* consumer exactly the signals it received from its source, less the one it
\* is still carrying (none dropped, merged or duplicated); in a ready registry
\* a relay of that registry that is sending sends on the live shared channel,
\* so a consumer that keeps receiving gets it; and once each of the m relays
\* has received its signals and carries none, the shared channel has yielded
\* as many signals as the sources gave (m when each gave one).
C9_CountPreserving ==
    /\ \A g \in Gens : \A d \in DevsOf(g) :
          srcSent[g][d + 1] = delivered[g][d + 1] + InFlight(g, d)
    /\ initialzed =>
          /\ \A d \in DevsOf(ReadyGen) :
                Relay(ReadyGen, d).pc = "send" =>
                    /\ Relay(ReadyGen, d).ch = workAvailable
                    /\ workAvailable # 0
                    /\ workAvailable \notin closed
          /\ (\A d \in DevsOf(ReadyGen) : InFlight(ReadyGen, d) = 0)
                => SumSeq(delivered[ReadyGen]) = SumSeq(srcSent[ReadyGen])
          /\ (\A d \in DevsOf(ReadyGen) :
                  srcSent[ReadyGen][d + 1] = 1 /\ InFlight(ReadyGen, d) = 0)
                => SumSeq(delivered[ReadyGen]) = Len(relay[ReadyGen])

\* two relays of a ready registry each received one signal and the consumer
\* has received both
C9_Witness ==
    /\ initialzed
    /\ fault = "none"
    /\ Len(relay[ReadyGen]) >= 2
    /\ \A d \in DevsOf(ReadyGen) :
          srcSent[ReadyGen][d + 1] = 1 /\ delivered[ReadyGen][d + 1] = 1
    /\ SumSeq(delivered[ReadyGen]) = Len(relay[ReadyGen])

\* the step in which DoWork returns
DoWorkReturns == dwPc # "idle" /\ dwPc' = "idle"

\* C10: partial failure of DoWork. When the flush of device j reports an error
\* DoWork returns it at once: every device before j whose flag was set has been
\* flushed and its flag cleared by this call, device j and every device after
\* it keep their flag, no device after j is flushed, and the BLAS backend is
\* not flushed. When no device reports an error DoWork returns nil, having
\* cleared the flag of every device it flushed (every flag set at the call
\* among them), with the BLAS backend flushed if it had work and its flag clear.
C10_PartialFailure ==
    [][DoWorkReturns =>
        LET j == ret'.at
            last == Len(hasWork) - 1
        IN  /\ ret'.op = "DoWork"
            /\ IF ret'.err
               THEN /\ j = dwI
                    /\ At(hasWork, j)
                    /\ At(hasWork', j)
                    /\ j \notin dwCleared
                    /\ \A i \in 0..(j - 1) :
                          /\ At(dwStart, i) => i \in dwFlushed
                          /\ i \in dwFlushed => i \in dwCleared
                    /\ \A i \in (j + 1)..last :
                          /\ i \notin dwFlushed
                          /\ i \notin dwCleared
                          /\ At(dwStart, i) => At(hasWork', i)
                    /\ ~ret'.blas
                    /\ blasHasWork' = blasHasWork
               ELSE /\ j = -1
                    /\ \A i \in 0..last :
                          /\ At(dwStart, i) => i \in dwFlushed
                          /\ i \in dwFlushed <=> i \in dwCleared
                    /\ ret'.blas = blasHasWork
                    /\ ~blasHasWork'
    ]_vars

\* DoWork returned the error of device 0 while device 1 and the BLAS backend
\* had work pending: both flags are still set
C10_Witness ==
    /\ fault = "none"
    /\ dwPc = "idle"
    /\ ret.op = "DoWork"
    /\ ret.err
    /\ ret.at = 0
    /\ Len(hasWork) >= 2
    /\ At(hasWork, 0)
    /\ At(hasWork, 1)
    /\ blasHasWork

\* the step in which init() is called on a registry that is Ready
InitOnReady == initialzed /\ ret'.op = "init" /\ ret' # ret

\* C11: init() on a Ready registry changes nothing: the shared channel, the
\* contexts, the capability profiles, the arena with its pools and blocks, the
\* pending-work flags and the relay tasks are as they were, and it reports Ready.
C11_InitIdempotent ==
    [][InitOnReady =>
          /\ UNCHANGED <<caps, mdRest, chanVars, initVars, relayVars, dwVars, fault>>
          /\ ret'.ready]_vars

\* init() was called on a Ready registry whose arena holds a block
C11_Witness ==
    /\ initialzed
    /\ fault = "none"
    /\ ret = [op |-> "init", ready |-> TRUE]
    /\ \E mem \in Mems : InArena(mem)

\* the step is the mark of a relay task of device i (cuda.go:312)
MarkOf(i) ==
    \E g \in Gens :
        /\ i \in DevsOf(g)
        /\ Relay(g, i).pc = "mark"
        /\ relay'[g][i + 1].pc = "send"

\* C12: each pending-work flag has a single writer: outside the allocation of
\* the flags by init(), a step that changes hasWork[i] is the mark of a relay
\* task of device i, and never a step of the consumer's flush routine DoWork.
C12_SingleWriter ==
    [][\A i \in 0..(Len(hasWork) - 1) :
          (initPc' = initPc /\ Len(hasWork') = Len(hasWork)
              /\ At(hasWork', i) # At(hasWork, i))
          => MarkOf(i)]_vars

\* the blocks the pool of key (d, size) holds in arena value ar; none when the
\* key has no pool
PoolOf(ar, d, size) ==
    IF d >= 0 /\ d < Len(ar) /\ size \in DOMAIN ar[d + 1].pools
    THEN ar[d + 1].pools[size] ELSE <<>>
HasKey(ar, d, size) ==
    d >= 0 /\ d < Len(ar) /\ size \in DOMAIN ar[d + 1].pools
\* how many times block mem is held by the sequence q
Count(q, mem) == Cardinality({k \in 1..Len(q) : q[k] = mem})
Keys == {<<d, size>> : d \in 0..(Len(arena) - 1), size \in Sizes}

\* C13: arena membership on an initialized registry. A Put under an in-range
\* key adds exactly its block to the pool of that key, which is created if the
\* key had none and reused (with what it holds) otherwise; a Get returns found
\* iff the pool of its key holds a block, the block it returns was held there
\* and is removed exactly once; no other pool changes, no pool ever disappears,
\* and no step other than a Put or a Get changes the arena. So each pool holds
\* exactly the blocks Put under its key and not yet returned by a Get.
C13_Membership ==
    [][(initialzed /\ fault' = "none") =>
        /\ Len(arena') = Len(arena)
        /\ \A k \in Keys : HasKey(arena, k[1], k[2]) => HasKey(arena', k[1], k[2])
        /\ \A k \in Keys : \A mem \in Mems :
            LET old == Count(PoolOf(arena, k[1], k[2]), mem)
                new == Count(PoolOf(arena', k[1], k[2]), mem)
                isKey == ret' # ret /\ ret'.dev = k[1] /\ ret'.size = k[2]
            IN  IF ret' # ret /\ ret'.op = "Put" /\ isKey /\ ret'.mem = mem
                THEN new = old + 1 /\ HasKey(arena', k[1], k[2])
                ELSE IF ret' # ret /\ ret'.op = "Get" /\ isKey /\ ret'.found
                        /\ ret'.mem = mem
                THEN old >= 1 /\ new = old - 1
                ELSE new = old
        /\ (ret' # ret /\ ret'.op = "Get" /\ InRange(arena, ret'.dev)) =>
              (ret'.found <=> PoolOf(arena, ret'.dev, ret'.size) # <<>>)
    ]_vars

\* two blocks were Put under one key, whose pool was reused, and a Get has
\* returned one of them: the other is still held
C13_Witness ==
    /\ initialzed
    /\ fault = "none"
    /\ ret.op = "Get"
    /\ ret.found
    /\ Len(PoolOf(arena, ret.dev, ret.size)) = 1
    /\ PoolOf(arena, ret.dev, ret.size)[1] # ret.mem

\* device i of a Ready registry has all that init() gives a device
DeviceReady(i) ==
    /\ At(c, i) = "ctx"
    /\ At(warp, i) = attrs[1] /\ At(mtpb, i) = attrs[2]
    /\ At(mgdx, i) = attrs[3] /\ At(mgdy, i) = attrs[4] /\ At(mgdz, i) = attrs[5]
    /\ At(mbdx, i) = attrs[6] /\ At(mbdy, i) = attrs[7] /\ At(mbdz, i) = attrs[8]
    /\ At(freeMem, i) = DevMemInfo[1] /\ At(totalMem, i) = DevMemInfo[2]
    /\ At(arena, i).made
    /\ Relay(ReadyGen, i).pc # "none"

\* nothing per-device is allocated
NothingAllocated ==
    /\ c = <<>> /\ hasWork = <<>> /\ arena = <<>>
    /\ warp = <<>> /\ mtpb = <<>> /\ mgdx = <<>> /\ mgdy = <<>> /\ mgdz = <<>>
    /\ mbdx = <<>> /\ mbdy = <<>> /\ mbdz = <<>>
    /\ freeMem = <<>> /\ totalMem = <<>>
    /\ workAvailable = 0 /\ relay = <<>>

\* C14: the registry becomes Ready only at the end of an init() that found at
\* least one device and probed every device with success; on a machine with no
\* device it is never Ready and nothing is allocated, and an init() that
\* returns at the device-count query allocates nothing; in every Ready state
\* each device has a context, a populated profile, an arena pool map and a
\* started relay task, and the shared channel is open.
C14_ReadyOnlyIfAllProbed ==
    /\ [](numDevices = 0 => (~initialzed /\ NothingAllocated))
    /\ [](initialzed =>
            /\ numDevices >= 1
            /\ Len(c) = numDevices /\ Len(arena) = numDevices
            /\ Len(relay[ReadyGen]) = numDevices
            /\ \A i \in 0..(numDevices - 1) : DeviceReady(i)
            /\ workAvailable # 0
            /\ workAvailable \notin closed)
    /\ [][/\ (~initialzed /\ initialzed') =>
                (initPc = "probe" /\ initI = numDevices /\ numDevices >= 1)
          /\ (initPc = "idle" /\ initPc' = "idle" /\ ret' # ret /\ ret'.op = "init") =>
                UNCHANGED <<caps, mdRest, chanVars, initVars, relayVars, dwVars, fault>>
         ]_vars

\* init() has made a registry of two devices Ready
C14_Witness ==
    /\ initialzed
    /\ fault = "none"
    /\ numDevices = 2
    /\ ret = [op |-> "init", ready |-> TRUE]
    /\ \A i \in 0..1 : DeviceReady(i)

\* C15: a Ready registry stays Ready under every call of init(), Cleanup(),
\* DoWork(), Get() and Put(): it keeps its contexts and its open channel; and a
\* Cleanup() of a Ready registry changes neither the lifecycle state, the
\* capability profiles nor the arena.
C15_StaysReady ==
    [][initialzed =>
          /\ initialzed'
          /\ c' = c
          /\ workAvailable' = workAvailable
          /\ closed' = closed
          /\ caps' = caps
          /\ fault' = "none"
          /\ (ret' # ret /\ ret'.op = "Cleanup") =>
                UNCHANGED <<caps, mdRest, chanVars, initVars, relayVars, dwVars>>
    ]_vars

\* Cleanup() was called on a Ready registry whose arena holds a block
C15_Witness ==
    /\ initialzed
    /\ fault = "none"
    /\ ret = [op |-> "Cleanup"]
    /\ \E mem \in Mems : InArena(mem)

\* C16: under fair scheduling and a consumer that keeps receiving, a relay task
\* whose source channel has been closed eventually exits its loop.
C16_CloseTerminates ==
    \A s \in Slots :
        (Live(s) /\ srcClosed[s[1]][s[2] + 1])
            ~> (Live(s) /\ Relay(s[1], s[2]).pc = "done")

\* C17: no relay task is blocked in, or performs, a send on the shared channel
\* after initFail() has closed it: no relay is in its send statement on a
\* closed channel, and the process never dies of a send on a closed channel.
C17_NoSendOnClosed ==
    /\ fault # "send on closed channel"
    /\ \A g \in Gens : \A d \in DevsOf(g) :
          Relay(g, d).pc = "send" => Relay(g, d).ch \notin closed

\* C18: no pending-work mark is lost: when DoWork resets hasWork[i] (the step
\* of cuda.go:137), no relay has set that flag since the flush of device i by
\* this call began.
C18_NoLostMark ==
    [][(dwPc = "clear" /\ dwPc' = "loop" /\ ~At(hasWork', dwI))
          => dwI \notin dwRemarked]_vars

\* C19: whenever the caller can call Put, every device index that passes its
\* range guard (d < len(m.arena)) has an initialized pool map, and no Put ever
\* faults by writing into a nil map.
C19_PoolMapsMade ==
    /\ fault # "assignment to entry in nil map"
    /\ CallerIdle => \A d \in 0..(Len(arena) - 1) : At(arena, d).made

\* C20: whenever hasWork[i] is set the context slot of device i exists and is
\* not nil, and DoWork never indexes a missing or nil context.
C20_FlagImpliesContext ==
    /\ fault \notin {"index out of range", "nil pointer dereference"}
    /\ \A i \in 0..(Len(hasWork) - 1) :
          At(hasWork, i) => (InRange(c, i) /\ At(c, i) = "ctx")

====
